---- MODULE Spec2Model ----
(***************************************************************************)
(* The admin panel of the movie review front end: the AdminMovies page     *)
(* (list, add, delete one, delete all) and the UsersChart list, each with  *)
(* its React state, its async handlers suspended at their awaits, and the  *)
(* requests they have in flight towards the REST backend.                  *)
(*                                                                         *)
(* A JavaScript string is a sequence of one-character strings, so that     *)
(* trim(), truthiness and Number() are computed and not assumed.  A JSON   *)
(* value is a tagged record (Null, Str, Num, NaN).  An error message is    *)
(* the sequence of the parts the template literal concatenates; the empty  *)
(* sequence is the empty string "".                                        *)
(***************************************************************************)
EXTENDS Integers, Sequences, FiniteSets, TLC

\* ------------------------------------------------------------- bounds
\* Records the backend holds when the page is opened: 0..MaxSeed.
MaxSeed == 1
\* The ids the backend gives out, 1..MaxId: it can create one record more
\* than it may start with.
MaxId == MaxSeed + 1
\* Handler activations that may be suspended at once.
MaxOps == 2

\* ------------------------------------------------------------- values
Null == [t |-> "null"]
NaN == [t |-> "NaN"]
Str(s) == [t |-> "string", v |-> s]
Num(n) == [t |-> "number", v |-> n]

FieldNames ==
  {"title", "director", "genre", "leadActor1", "leadActor2", "releaseDate",
   "salesMillions", "posterUrl"}

\* What the user types into the inputs of the page: an empty, a blank and a
\* padded title, a sales figure of zero; the other inputs are left empty.
FieldValues(name) ==
  CASE name = "title" -> {<<>>, <<" ">>, <<" ", "D">>}
    [] name = "salesMillions" -> {<<>>, <<"0">>}
    [] OTHER -> {<<>>}

emptyForm == [n \in FieldNames |-> <<>>]

\* ------------------------------------------------------------- pure code
WhiteSpace == {" ", "\t", "\n"}

RECURSIVE TrimStart(_)
TrimStart(s) ==
  IF s # <<>> /\ Head(s) \in WhiteSpace THEN TrimStart(Tail(s)) ELSE s

RECURSIVE TrimEnd(_)
TrimEnd(s) ==
  IF s # <<>> /\ s[Len(s)] \in WhiteSpace
  THEN TrimEnd(SubSeq(s, 1, Len(s) - 1))
  ELSE s

\* String.prototype.trim
Trim(s) == TrimEnd(TrimStart(s))

DigitValue(c) ==
  CASE c = "0" -> 0 [] c = "1" -> 1 [] c = "2" -> 2 [] c = "3" -> 3
    [] c = "4" -> 4 [] c = "5" -> 5 [] c = "6" -> 6 [] c = "7" -> 7
    [] c = "8" -> 8 [] c = "9" -> 9 [] OTHER -> -1

RECURSIVE DigitsValue(_, _)
DigitsValue(s, acc) ==
  IF s = <<>> THEN acc ELSE DigitsValue(Tail(s), 10 * acc + DigitValue(Head(s)))

\* Number(string) on the strings a number input can hold without a sign,
\* fraction or exponent: "" and blanks are 0, a digit string is its
\* value (leading zeros dropped), anything else is NaN.
Number(s) ==
  LET t == Trim(s) IN
  IF t = <<>> THEN Num(0)
  ELSE IF \A i \in 1..Len(t) : DigitValue(t[i]) >= 0 THEN Num(DigitsValue(t, 0))
  ELSE NaN

\* A slip: the value is trimmed before it is tested and sent.
OrNullTrimmed(s) == IF Trim(s) = <<>> THEN Null ELSE Str(Trim(s))

\* form.x || null
OrNull(s) == IF s = <<>> THEN Null ELSE Str(s)

SEND_SNAKE_CASE == FALSE

\* A slip: the sales figure is converted without the test for "".
toPayloadSalesConverted(form) ==
  [title |-> OrNull(form.title),
   director |-> OrNull(form.director),
   genre |-> OrNull(form.genre),
   leadActor1 |-> OrNull(form.leadActor1),
   leadActor2 |-> OrNull(form.leadActor2),
   releaseDate |-> OrNull(form.releaseDate),
   salesMillions |-> Number(form.salesMillions),
   posterUrl |-> OrNull(form.posterUrl)]

toPayload(form) ==
  LET payload ==
        [title |-> OrNull(form.title),
         director |-> OrNull(form.director),
         genre |-> OrNull(form.genre),
         leadActor1 |-> OrNull(form.leadActor1),
         leadActor2 |-> OrNull(form.leadActor2),
         releaseDate |-> OrNull(form.releaseDate),
         salesMillions |->
           IF form.salesMillions = <<>> THEN Null ELSE Number(form.salesMillions),
         posterUrl |-> OrNull(form.posterUrl)]
  IN IF ~SEND_SNAKE_CASE THEN payload
     ELSE [title |-> payload.title,
           director |-> payload.director,
           genre |-> payload.genre,
           lead_actor_1 |-> payload.leadActor1,
           lead_actor_2 |-> payload.leadActor2,
           release_date |-> payload.releaseDate,
           sales_millions |-> payload.salesMillions,
           poster_url |-> payload.posterUrl]

\* JSON.stringify of the payload: NaN is written as null.
JSONstringify(payload) ==
  [k \in DOMAIN payload |-> IF payload[k] = NaN THEN Null ELSE payload[k]]

\* ------------------------------------------------------------- state
VARIABLES
  db,        \* backend: the movie records it holds, in id order
  nextId,    \* backend: the id the next created record gets
  net,       \* requests issued by the page and not yet settled
  mounted,   \* AdminMovies: the mount effect has run
  movies,    \* AdminMovies: useState movies
  form,      \* AdminMovies: useState form
  loading,   \* AdminMovies: useState loading
  error,     \* AdminMovies: useState error
  ops,       \* AdminMovies: the handler activations suspended at an await
  ev,        \* AdminMovies: what the latest step of the page did (history)
  uMounted,  \* UsersChart: the mount effect has run
  users,     \* UsersChart: useState users
  uLoading,  \* UsersChart: useState loading
  uError,    \* UsersChart: useState error
  uNet,      \* UsersChart: the GET /users requests in flight
  uev        \* UsersChart: what the latest step of the list did (history)

moviesVars == <<db, nextId, net, mounted, movies, form, loading, error, ops, ev>>
usersVars == <<uMounted, users, uLoading, uError, uNet, uev>>
vars == <<moviesVars, usersVars>>

Slots == 1..MaxOps

\* An activation of load, addMovie, deleteOne or deleteAll: where it is
\* suspended (pc) and the DELETE ids Promise.all still waits for (pending).
\* The rest is history: the requests it has issued (sent), the list displayed
\* when it started (movies0), the draft addMovie submitted (form0), whether a
\* field was edited since addMovie last set or read the draft (touched), and
\* whether one of its DELETE requests was refused or rejected (refused).
Idle ==
  [kind |-> "idle", pc |-> "", pending |-> {}, sent |-> <<>>,
   movies0 |-> <<>>, form0 |-> emptyForm, touched |-> FALSE, refused |-> FALSE]

Activation(kind, pc, first) ==
  [kind |-> kind, pc |-> pc, pending |-> {}, sent |-> first,
   movies0 |-> movies, form0 |-> IF kind = "addMovie" THEN form ELSE emptyForm,
   touched |-> FALSE, refused |-> FALSE]

FreeSlots == {s \in Slots : ops[s].kind = "idle"}
FreeSlot == CHOOSE s \in FreeSlots : \A t \in FreeSlots : s <= t

\* A request in flight.  awaited: a continuation of activation slot still
\* waits for its result.
Request(slot, method, id, body) ==
  [slot |-> slot, method |-> method, id |-> id, body |-> body, awaited |-> TRUE]

Sent(method, id) == [method |-> method, id |-> id]

\* The latest step of an operation of the page: the handler or continuation
\* that ran (act), how the request it waited for settled (o), the operation
\* that completed in it (done) and where that one failed (fail), how a load
\* that completed in it ended (load), and the history of the activation a.
Event(act, o, a, done, fail, load) ==
  [act |-> act, o |-> o, done |-> done, fail |-> fail, load |-> load,
   sent |-> a.sent, movies0 |-> a.movies0, form0 |-> a.form0,
   touched |-> a.touched, refused |-> a.refused]

\* A step that starts, continues or ends no operation: an edit of the draft,
\* or a request nobody waits for settling.
Quiet == Event("none", "", Idle, "none", "none", "none")

\* The user answered a confirm() with Cancel.
Declined == Event("confirm", "", Idle, "none", "declined", "none")

\* ------------------------------------------------------------- backend
Seed(i) ==
  [id |-> i, title |-> Str(<<"S">>), director |-> Null, genre |-> Null,
   leadActor1 |-> Null, leadActor2 |-> Null, releaseDate |-> Null,
   salesMillions |-> Null, posterUrl |-> Null]

\* How a request can settle: "ok" a success status with the expected body,
\* "badbody" a success status with a body that is not JSON, "status" a
\* failure status, "reject" a rejected fetch.
AllOutcomes == {"ok", "badbody", "status", "reject"}

Outcomes(method) ==
  IF method = "GET" THEN AllOutcomes ELSE {"ok", "status", "reject"}

StatusOf(method) ==
  CASE method = "GET" -> "500" [] method = "POST" -> "400" [] OTHER -> "404"

\* POST /api/admin/movies: the backend stores what it is sent under a new id.
Created(body) ==
  [id |-> nextId, title |-> body.title, director |-> body.director,
   genre |-> body.genre, leadActor1 |-> body.leadActor1,
   leadActor2 |-> body.leadActor2, releaseDate |-> body.releaseDate,
   salesMillions |-> body.salesMillions, posterUrl |-> body.posterUrl]

\* The backend's state after it has answered request r with outcome o.
Serve(r, o) ==
  IF o = "ok" /\ r.method = "POST"
  THEN /\ db' = Append(db, Created(r.body))
       /\ nextId' = nextId + 1
  ELSE IF o = "ok" /\ r.method = "DELETE"
  THEN /\ db' = SelectSeq(db, LAMBDA m : m.id # r.id)
       /\ nextId' = nextId
  ELSE UNCHANGED <<db, nextId>>

CanServe(r, o) ==
  /\ o \in Outcomes(r.method)
  /\ (o = "ok" /\ r.method = "POST") => nextId <= MaxId

\* err.message of a rejected fetch and of a res.json() that cannot parse.
RejectMessage == <<"Failed to fetch">>
JsonMessage == <<"Unexpected token < in JSON at position 0">>

\* GET /users: the registered users the backend lists.
userRows == <<[id |-> 1, username |-> "ann"]>>

\* useState(null): null, or the array loaded.
NotLoaded == [loaded |-> FALSE, rows |-> <<>>]
Loaded(rows) == [loaded |-> TRUE, rows |-> rows]

\* ------------------------------------------------------------- AdminMovies
Init ==
  /\ db \in {[i \in 1..n |-> Seed(i)] : n \in 0..MaxSeed}
  /\ nextId = MaxSeed + 1
  /\ net = {}
  /\ mounted = FALSE
  /\ movies = <<>>
  /\ form = emptyForm
  /\ loading = FALSE
  /\ error = <<>>
  /\ ops = [s \in Slots |-> Idle]
  /\ ev = Event("init", "", Idle, "none", "none", "none")
  /\ uMounted = FALSE
  /\ users = NotLoaded
  /\ uLoading = FALSE
  /\ uError = <<>>
  /\ uNet = 0
  /\ uev = [act |-> "init", o |-> ""]

\* The activation a once it has called load() and waits for its fetch.
inLoad(a) == [a EXCEPT !.pc = "load", !.sent = Append(@, Sent("GET", 0))]

\* load, up to its await of fetch: activation a of slot s calls load() (it is
\* load itself, or awaits load()) with n the requests otherwise in flight.
loadStart(s, a, n) ==
  /\ loading' = TRUE
  /\ error' = <<>>
  /\ net' = n \cup {Request(s, "GET", 0, <<>>)}
  /\ ops' = [ops EXCEPT ![s] = inLoad(a)]

\* A slip: a failed load leaves the list it found displayed.
loadFinishKeepsList(o) ==
  /\ IF o = "ok"
     THEN /\ movies' = db
          /\ error' = error
     ELSE /\ error' = IF o = "status"
                      THEN <<"GET /api/movies failed: ", "500">>
                      ELSE <<"Failed to fetch">>
          /\ movies' = movies
  /\ loading' = FALSE

\* A slip: setLoading(false) at the end of the try, and no finally.
loadFinishNoFinally(o) ==
  /\ IF o = "ok"
     THEN /\ movies' = db
          /\ error' = error
          /\ loading' = FALSE
     ELSE /\ error' = IF o = "status"
                      THEN <<"GET /api/movies failed: ", "500">>
                      ELSE <<"Failed to fetch">>
          /\ movies' = <<>>
          /\ loading' = loading

\* Whether load throws: fetch rejected, !res.ok, or res.json() could not parse.
loadFailed(o) == o # "ok"

loadError(o) ==
  CASE o = "status" -> <<"GET /api/movies failed: ", StatusOf("GET")>>
    [] o = "badbody" -> JsonMessage
    [] OTHER -> RejectMessage

\* load, from the settled fetch to its end.
loadFinish(o) ==
  /\ IF ~loadFailed(o)
     THEN /\ movies' = db
          /\ error' = error
     ELSE /\ error' = loadError(o)
          /\ movies' = <<>>
  /\ loading' = FALSE

\* useEffect(() => { load(); }, [])
Mount ==
  /\ UNCHANGED usersVars
  /\ ~mounted
  /\ mounted' = TRUE
  /\ loadStart(FreeSlot, Activation("load", "load", <<>>), net)
  /\ ev' = Event("Mount", "", inLoad(Activation("load", "load", <<>>)),
                 "none", "none", "none")
  /\ UNCHANGED <<db, nextId, movies, form>>

\* The GET of a load settles: of the mount's load, or of the load awaited by
\* addMovie, deleteOne or deleteAll, whose finally then runs as well.
LoadResponse(r, o) ==
  /\ UNCHANGED usersVars
  /\ r \in net /\ r.method = "GET" /\ r.awaited
  /\ ops[r.slot].pc = "load"
  /\ CanServe(r, o)
  /\ Serve(r, o)
  /\ loadFinish(o)
  /\ net' = net \ {r}
  /\ ops' = [ops EXCEPT ![r.slot] = Idle]
  /\ ev' = Event("LoadResponse", o, ops[r.slot], ops[r.slot].kind,
                 IF loadFailed(o) THEN "load" ELSE "none",
                 IF loadFailed(o) THEN "failed" ELSE "ok")
  /\ UNCHANGED <<mounted, form>>

\* The activations after an edit of the draft (history only).
edited == [s \in Slots |-> IF ops[s].kind = "addMovie"
                           THEN [ops[s] EXCEPT !.touched = TRUE] ELSE ops[s]]

onChange(name, value) ==
  /\ UNCHANGED usersVars
  /\ mounted
  /\ value # form[name]
  /\ form' = [form EXCEPT ![name] = value]
  /\ ops' = edited
  /\ ev' = Quiet
  /\ UNCHANGED <<db, nextId, net, mounted, movies, loading, error>>

\* A slip: the Clear button is not disabled while loading.
ClearWhileLoading ==
  /\ UNCHANGED usersVars
  /\ mounted
  /\ form # emptyForm
  /\ form' = emptyForm
  /\ ev' = Quiet
  /\ UNCHANGED <<db, nextId, net, mounted, movies, loading, error, ops>>

\* The Clear button: onClick={() => setForm({ ...emptyForm })} disabled={loading}
Clear ==
  /\ UNCHANGED usersVars
  /\ mounted /\ ~loading
  /\ form # emptyForm
  /\ form' = emptyForm
  /\ ev' = Quiet
  /\ UNCHANGED <<db, nextId, net, mounted, movies, loading, error, ops>>

\* A slip: the title is tested without trim().
titleMissingUntrimmed(f) == f.title = <<>>

\* The client-side check of addMovie: !form.title.trim()
titleMissing(f) == Trim(f.title) = <<>>

\* addMovie, up to its await of fetch (the submit button is disabled while
\* loading).
addMovie ==
  /\ UNCHANGED usersVars
  /\ mounted /\ ~loading
  /\ FreeSlots # {}
  /\ IF titleMissing(form)
     THEN /\ error' = <<"Title is required">>
          /\ loading' = FALSE
          /\ ev' = Event("addMovie", "", Activation("addMovie", "post", <<>>),
                         "addMovie", "validation", "none")
          /\ UNCHANGED <<net, ops>>
     ELSE LET s == FreeSlot
              a == Activation("addMovie", "post", <<Sent("POST", 0)>>)
          IN /\ error' = <<>>
             /\ loading' = TRUE
             /\ net' = net \cup {Request(s, "POST", 0, JSONstringify(toPayload(form)))}
             /\ ops' = [ops EXCEPT ![s] = a]
             /\ ev' = Event("addMovie", "", a, "none", "none", "none")
  /\ UNCHANGED <<db, nextId, mounted, movies, form>>

\* Whether addMovie throws after its fetch: fetch rejected, or !res.ok.
postFailed(o) == o # "ok"

\* A slip: the form is not reset after a successful POST.
formKept(o) == form

\* The draft after the POST has settled: setForm({ ...emptyForm }) on success.
formAfterPost(o) == IF ~postFailed(o) THEN emptyForm ELSE form

\* addMovie, from the settled POST on.
AddMovieResponse(r, o) ==
  /\ UNCHANGED usersVars
  /\ r \in net /\ r.method = "POST" /\ r.awaited
  /\ ops[r.slot].pc = "post"
  /\ CanServe(r, o)
  /\ Serve(r, o)
  /\ IF ~postFailed(o)
     THEN LET a == [ops[r.slot] EXCEPT !.touched = FALSE] IN
          /\ loadStart(r.slot, a, net \ {r})
          /\ ev' = Event("AddMovieResponse", o, inLoad(a), "none", "none", "none")
          /\ UNCHANGED movies
     ELSE /\ error' =
               IF o = "status"
               THEN <<"POST failed ", StatusOf("POST"), ": ", "Bad Request">>
               ELSE RejectMessage
          /\ loading' = FALSE
          /\ net' = net \ {r}
          /\ ops' = [ops EXCEPT ![r.slot] = Idle]
          /\ ev' = Event("AddMovieResponse", o, ops[r.slot], "addMovie", "post", "none")
          /\ UNCHANGED movies
  /\ form' = formAfterPost(o)
  /\ UNCHANGED mounted

\* A slip: deleteOne does not clear the error of the operation before.
deleteOneKeepsError(id, ok) ==
  /\ UNCHANGED usersVars
  /\ mounted /\ ~loading
  /\ \E i \in 1..Len(movies) : movies[i].id = id
  /\ FreeSlots # {}
  /\ IF ~ok
     THEN /\ ev' = Declined
          /\ UNCHANGED <<net, loading, error, ops>>
     ELSE LET s == FreeSlot
              a == Activation("deleteOne", "delete", <<Sent("DELETE", id)>>)
          IN /\ loading' = TRUE
             /\ error' = error
             /\ net' = net \cup {Request(s, "DELETE", id, <<>>)}
             /\ ops' = [ops EXCEPT ![s] = a]
             /\ ev' = Event("deleteOne", "", a, "none", "none", "none")
  /\ UNCHANGED <<db, nextId, mounted, movies, form>>

\* deleteOne, up to its await of fetch; ok is the user's answer to confirm().
\* Its button is in a row of the displayed list and disabled while loading.
deleteOne(id, ok) ==
  /\ UNCHANGED usersVars
  /\ mounted /\ ~loading
  /\ \E i \in 1..Len(movies) : movies[i].id = id
  /\ FreeSlots # {}
  /\ IF ~ok
     THEN /\ ev' = Declined
          /\ UNCHANGED <<net, loading, error, ops>>
     ELSE LET s == FreeSlot
              a == Activation("deleteOne", "delete", <<Sent("DELETE", id)>>)
          IN /\ loading' = TRUE
             /\ error' = <<>>
             /\ net' = net \cup {Request(s, "DELETE", id, <<>>)}
             /\ ops' = [ops EXCEPT ![s] = a]
             /\ ev' = Event("deleteOne", "", a, "none", "none", "none")
  /\ UNCHANGED <<db, nextId, mounted, movies, form>>

\* A slip: the status of the response is not looked at.
deleteFailedOnRejectOnly(o) == o = "reject"

\* Whether deleteOne throws after its fetch: fetch rejected, or !res.ok.
deleteFailed(o) == o # "ok"

\* deleteOne, from the settled DELETE on.
DeleteOneResponse(r, o) ==
  /\ UNCHANGED usersVars
  /\ r \in net /\ r.method = "DELETE" /\ r.awaited
  /\ ops[r.slot].pc = "delete"
  /\ CanServe(r, o)
  /\ Serve(r, o)
  /\ IF ~deleteFailed(o)
     THEN /\ loadStart(r.slot, ops[r.slot], net \ {r})
          /\ ev' = Event("DeleteOneResponse", o, inLoad(ops[r.slot]),
                         "none", "none", "none")
     ELSE /\ error' =
               IF o = "status"
               THEN <<"DELETE ", ToString(r.id), " failed: ", StatusOf("DELETE")>>
               ELSE RejectMessage
          /\ loading' = FALSE
          /\ net' = net \ {r}
          /\ ops' = [ops EXCEPT ![r.slot] = Idle]
          /\ ev' = Event("DeleteOneResponse", o, ops[r.slot], "deleteOne", "delete", "none")
  /\ UNCHANGED <<mounted, movies, form>>

\* A slip: confirm() is asked after setLoading(true) and setError("").
deleteAllConfirmsLate(ok) ==
  /\ UNCHANGED usersVars
  /\ mounted /\ ~loading
  /\ FreeSlots # {}
  /\ IF ~ok
     THEN /\ ev' = Declined
          /\ error' = <<>>
          /\ UNCHANGED <<net, loading, ops>>
     ELSE LET s == FreeSlot
              a == Activation("deleteAll", "list", <<Sent("GET", 0)>>)
          IN /\ loading' = TRUE
             /\ error' = <<>>
             /\ net' = net \cup {Request(s, "GET", 0, <<>>)}
             /\ ops' = [ops EXCEPT ![s] = a]
             /\ ev' = Event("deleteAll", "", a, "none", "none", "none")
  /\ UNCHANGED <<db, nextId, mounted, movies, form>>

\* A slip: the Delete All button is not disabled while loading.
deleteAllWhileLoading(ok) ==
  /\ UNCHANGED usersVars
  /\ mounted
  /\ FreeSlots # {}
  /\ IF ~ok
     THEN /\ ev' = Declined
          /\ UNCHANGED <<net, loading, error, ops>>
     ELSE LET s == FreeSlot
              a == Activation("deleteAll", "list", <<Sent("GET", 0)>>)
          IN /\ loading' = TRUE
             /\ error' = <<>>
             /\ net' = net \cup {Request(s, "GET", 0, <<>>)}
             /\ ops' = [ops EXCEPT ![s] = a]
             /\ ev' = Event("deleteAll", "", a, "none", "none", "none")
  /\ UNCHANGED <<db, nextId, mounted, movies, form>>

\* deleteAll, up to its await of the first fetch.
deleteAll(ok) ==
  /\ UNCHANGED usersVars
  /\ mounted /\ ~loading
  /\ FreeSlots # {}
  /\ IF ~ok
     THEN /\ ev' = Declined
          /\ UNCHANGED <<net, loading, error, ops>>
     ELSE LET s == FreeSlot
              a == Activation("deleteAll", "list", <<Sent("GET", 0)>>)
          IN /\ loading' = TRUE
             /\ error' = <<>>
             /\ net' = net \cup {Request(s, "GET", 0, <<>>)}
             /\ ops' = [ops EXCEPT ![s] = a]
             /\ ev' = Event("deleteAll", "", a, "none", "none", "none")
  /\ UNCHANGED <<db, nextId, mounted, movies, form>>

\* A slip: the status of the response is not looked at and its body is read
\* leniently.
listFailedOnRejectOnly(o) == o = "reject"

\* Whether deleteAll throws after its first fetch: fetch rejected, !res.ok,
\* or res.json() could not parse.
listFailed(o) == o # "ok"

\* A slip: the DELETE requests are made from the displayed list, movies.map.
deleteRequestsOfDisplayed(s, list) ==
  {Request(s, "DELETE", movies[i].id, <<>>) : i \in 1..Len(movies)}

\* list.map((m) => fetch(`/api/admin/movies/${m.id}`, { method: "DELETE" }))
deleteRequests(s, list) ==
  {Request(s, "DELETE", list[i].id, <<>>) : i \in 1..Len(list)}

deletesSent(list) == [i \in 1..Len(list) |-> Sent("DELETE", list[i].id)]

\* deleteAll, from the settled first fetch to its await of Promise.all (of no
\* promise when the list is empty: it then goes on to load()).
DeleteAllListResponse(r, o) ==
  /\ UNCHANGED usersVars
  /\ r \in net /\ r.method = "GET" /\ r.awaited
  /\ ops[r.slot].pc = "list"
  /\ CanServe(r, o)
  /\ Serve(r, o)
  /\ LET a == ops[r.slot] IN
     IF ~listFailed(o)
     THEN LET list == db
              b == [a EXCEPT !.pc = "deletes",
                             !.sent = @ \o deletesSent(list),
                             !.pending = {list[i].id : i \in 1..Len(list)}]
          IN IF list = <<>>
             THEN /\ loadStart(r.slot, b, net \ {r})
                  /\ ev' = Event("DeleteAllListResponse", o, inLoad(b),
                                 "none", "none", "none")
             ELSE /\ net' = (net \ {r}) \cup deleteRequests(r.slot, list)
                  /\ ops' = [ops EXCEPT ![r.slot] = b]
                  /\ ev' = Event("DeleteAllListResponse", o, b, "none", "none", "none")
                  /\ UNCHANGED <<loading, error>>
     ELSE /\ error' =
               CASE o = "status" -> <<"Failed to load movies before deleting">>
                 [] o = "badbody" -> JsonMessage
                 [] OTHER -> RejectMessage
          /\ loading' = FALSE
          /\ net' = net \ {r}
          /\ ops' = [ops EXCEPT ![r.slot] = Idle]
          /\ ev' = Event("DeleteAllListResponse", o, a, "deleteAll", "list", "none")
  /\ UNCHANGED <<mounted, movies, form>>

\* The requests Promise.all has stopped waiting for once it has rejected.
abandon(n, s) ==
  {IF q.slot = s THEN [q EXCEPT !.slot = 0, !.awaited = FALSE] ELSE q : q \in n}

\* A slip: Promise.allSettled in the place of Promise.all.
fulfilledAlways(o) == TRUE

\* Whether Promise.all takes a settled fetch of a DELETE as fulfilled: fetch
\* resolves whatever the status, and the response is not looked at.
fulfilled(o) == o \in {"ok", "status"}

\* deleteAll: one of the DELETE requests awaited by Promise.all settles.
DeleteAllDeleteResponse(r, o) ==
  /\ UNCHANGED usersVars
  /\ r \in net /\ r.method = "DELETE" /\ r.awaited
  /\ ops[r.slot].pc = "deletes"
  /\ CanServe(r, o)
  /\ Serve(r, o)
  /\ LET a == [ops[r.slot] EXCEPT !.pending = @ \ {r.id},
                                  !.refused = @ \/ o # "ok"]
     IN IF fulfilled(o)
        THEN IF a.pending = {}
             THEN /\ loadStart(r.slot, a, net \ {r})
                  /\ ev' = Event("DeleteAllDeleteResponse", o, inLoad(a),
                                 "none", "none", "none")
             ELSE /\ net' = net \ {r}
                  /\ ops' = [ops EXCEPT ![r.slot] = a]
                  /\ ev' = Event("DeleteAllDeleteResponse", o, a, "none", "none", "none")
                  /\ UNCHANGED <<loading, error>>
        ELSE /\ error' = RejectMessage
             /\ loading' = FALSE
             /\ net' = abandon(net \ {r}, r.slot)
             /\ ops' = [ops EXCEPT ![r.slot] = Idle]
             /\ ev' = Event("DeleteAllDeleteResponse", o, a, "deleteAll", "deletes", "none")
  /\ UNCHANGED <<mounted, movies, form>>

\* A request nobody waits for any more settles: only the backend changes.
AbandonedResponse(r, o) ==
  /\ UNCHANGED usersVars
  /\ r \in net /\ ~r.awaited
  /\ CanServe(r, o)
  /\ Serve(r, o)
  /\ net' = net \ {r}
  /\ ev' = Quiet
  /\ UNCHANGED <<mounted, movies, form, loading, error, ops>>

\* ------------------------------------------------------------- UsersChart
endpoint == "/users"

\* How GET /users can settle: "ok" a JSON array, "notarray" a JSON value that
\* is no array, "badbody" a JSON content type with a body that does not
\* parse, "html" another content type, "status" a failure status, "reject" a
\* rejected fetch.
UserOutcomes == {"ok", "notarray", "badbody", "html", "status", "reject"}

\* A slip: load does not clear the error of the load before.
usersLoadStartKeepsError ==
  /\ uLoading' = TRUE
  /\ uError' = uError
  /\ users' = NotLoaded
  /\ uNet' = uNet + 1

\* UsersChart.load, up to its await of fetch.
usersLoadStart ==
  /\ uLoading' = TRUE
  /\ uError' = <<>>
  /\ users' = NotLoaded
  /\ uNet' = uNet + 1

\* Whether UsersChart.load throws.
usersFailed(o) == o \notin {"ok", "notarray"}

\* err.message of what UsersChart.load throws or fetch rejects with.
usersMessage(o) ==
  CASE o = "status" -> <<"GET ", endpoint, " failed: ", "500", " - ", "<html>">>
    [] o = "html" -> <<"Unexpected response content-type=", "text/html", ". Body: ", "<html>">>
    [] o = "badbody" -> JsonMessage
    [] OTHER -> RejectMessage

\* err.message || "Failed to load users"
usersError(o) ==
  IF usersMessage(o) = <<>> THEN <<"Failed to load users">> ELSE usersMessage(o)

\* UsersChart.load, from the settled fetch to its end.
usersLoadFinish(o) ==
  /\ IF ~usersFailed(o)
     THEN /\ users' = Loaded(IF o = "ok" THEN userRows ELSE <<>>)
          /\ uError' = uError
     ELSE /\ uError' = usersError(o)
          /\ users' = Loaded(<<>>)
  /\ uLoading' = FALSE

\* useEffect(() => { load(); }, [])
UsersMount ==
  /\ ~uMounted
  /\ uMounted' = TRUE
  /\ usersLoadStart
  /\ uev' = [act |-> "load", o |-> ""]
  /\ UNCHANGED moviesVars

\* A slip: the Refresh button is not disabled while loading.
UsersRefreshWhileLoading ==
  /\ uMounted
  /\ uNet < MaxOps
  /\ usersLoadStart
  /\ uev' = [act |-> "load", o |-> ""]
  /\ UNCHANGED <<moviesVars, uMounted>>

\* The Refresh button: onClick={load} disabled={loading}
UsersRefresh ==
  /\ uMounted /\ ~uLoading
  /\ uNet < MaxOps
  /\ usersLoadStart
  /\ uev' = [act |-> "load", o |-> ""]
  /\ UNCHANGED <<moviesVars, uMounted>>

UsersLoadResponse(o) ==
  /\ uNet > 0
  /\ usersLoadFinish(o)
  /\ uNet' = uNet - 1
  /\ uev' = [act |-> "UsersLoadResponse", o |-> o]
  /\ UNCHANGED <<moviesVars, uMounted>>

\* ------------------------------------------------------------- render
\* What AdminMovies renders below its form: {loading && ...}, {error && ...},
\* the rows of movies.map and the row of {movies.length === 0 && ...}.
showsWorking == loading
showsError == error # <<>>
showsRows == Len(movies) > 0
showsPlaceholder == Len(movies) = 0

\* What UsersChart renders below its title: {error && ...},
\* {loading && !users && ...}, {users && users.length === 0 && ...} and
\* {users && users.length > 0 && ...}.
uShowsError == uError # <<>>
uShowsLoading == uLoading /\ ~users.loaded
uShowsPlaceholder == users.loaded /\ Len(users.rows) = 0
uShowsRows == users.loaded /\ Len(users.rows) > 0

\* ------------------------------------------------------------- specifications
\* The movies page.
Next ==
  \/ Mount
  \/ \E name \in FieldNames : \E value \in FieldValues(name) : onChange(name, value)
  \/ Clear
  \/ addMovie
  \/ \E id \in 1..MaxId : \E ok \in BOOLEAN : deleteOne(id, ok)
  \/ \E ok \in BOOLEAN : deleteAll(ok)
  \/ \E r \in net : \E o \in AllOutcomes : LoadResponse(r, o)
  \/ \E r \in net : \E o \in AllOutcomes : AddMovieResponse(r, o)
  \/ \E r \in net : \E o \in AllOutcomes : DeleteOneResponse(r, o)
  \/ \E r \in net : \E o \in AllOutcomes : DeleteAllListResponse(r, o)
  \/ \E r \in net : \E o \in AllOutcomes : DeleteAllDeleteResponse(r, o)
  \/ \E r \in net : \E o \in AllOutcomes : AbandonedResponse(r, o)

Spec == Init /\ [][Next]_vars

\* A request in flight settles: the backend answers it, or the fetch rejects.
Settle ==
  \E r \in net : \E o \in AllOutcomes :
    \/ LoadResponse(r, o)
    \/ AddMovieResponse(r, o)
    \/ DeleteOneResponse(r, o)
    \/ DeleteAllListResponse(r, o)
    \/ DeleteAllDeleteResponse(r, o)
    \/ AbandonedResponse(r, o)

\* The movies page when every request issued eventually settles.
SpecLive == Init /\ [][Next]_vars /\ WF_vars(Settle)

\* The admin panel: the movies page, with a title typed into its form, and the
\* users list below it.
NextPanel ==
  \/ Mount
  \/ \E value \in FieldValues("title") : onChange("title", value)
  \/ Clear
  \/ addMovie
  \/ \E id \in 1..MaxId : \E ok \in BOOLEAN : deleteOne(id, ok)
  \/ \E ok \in BOOLEAN : deleteAll(ok)
  \/ \E r \in net : \E o \in AllOutcomes : LoadResponse(r, o)
  \/ \E r \in net : \E o \in AllOutcomes : AddMovieResponse(r, o)
  \/ \E r \in net : \E o \in AllOutcomes : DeleteOneResponse(r, o)
  \/ \E r \in net : \E o \in AllOutcomes : DeleteAllListResponse(r, o)
  \/ \E r \in net : \E o \in AllOutcomes : DeleteAllDeleteResponse(r, o)
  \/ \E r \in net : \E o \in AllOutcomes : AbandonedResponse(r, o)
  \/ UsersMount
  \/ UsersRefresh
  \/ \E o \in UserOutcomes : UsersLoadResponse(o)

SpecPanel == Init /\ [][NextPanel]_vars

\* The drafts submitted to see what create sends: a title, each optional text
\* input empty or filled (the director also with a blank and with "0"), the
\* sales input empty, zero or a figure with a leading zero.
DraftValues(name) ==
  CASE name = "title" -> {<<"D">>}
    [] name = "director" -> {<<>>, <<" ">>, <<"0">>}
    [] name = "salesMillions" -> {<<>>, <<"0">>, <<"0", "7">>}
    [] OTHER -> {<<>>, <<"x">>}

\* The page once mounted on an empty backend, with a draft typed into its form.
InitPayload ==
  /\ db = <<>>
  /\ nextId = MaxSeed + 1
  /\ net = {}
  /\ mounted = TRUE
  /\ movies = <<>>
  /\ form \in {f \in [FieldNames -> UNION {DraftValues(n) : n \in FieldNames}] :
                 \A n \in FieldNames : f[n] \in DraftValues(n)}
  /\ loading = FALSE
  /\ error = <<>>
  /\ ops = [s \in Slots |-> Idle]
  /\ ev = Quiet
  /\ uMounted = FALSE
  /\ users = NotLoaded
  /\ uLoading = FALSE
  /\ uError = <<>>
  /\ uNet = 0
  /\ uev = [act |-> "init", o |-> ""]

\* The create of that draft.
NextPayload ==
  \/ addMovie
  \/ \E r \in net : \E o \in AllOutcomes : AddMovieResponse(r, o)
  \/ \E r \in net : \E o \in AllOutcomes : LoadResponse(r, o)

SpecPayload == InitPayload /\ [][NextPayload]_vars

\* ------------------------------------------------------------- claims
\* What the claims speak of.
Blank(s) == \A i \in 1..Len(s) : s[i] = " "
Gets(sent) == Cardinality({i \in 1..Len(sent) : sent[i].method = "GET"})
Deletes(sent) == Cardinality({i \in 1..Len(sent) : sent[i].method = "DELETE"})
Awaited == {r \in net : r.awaited}
Submitting == \E s \in Slots : ops[s].kind = "addMovie"

\* C1: submitting a draft whose title is empty or only whitespace issues no
\* request (no POST, no list reload) and ends with the error message
\* 'Title is required'.
C1_BlankTitleIssuesNoRequest ==
  (ev.act = "addMovie" /\ Blank(ev.form0.title)) =>
    /\ ev.done = "addMovie"
    /\ ev.sent = <<>>
    /\ Awaited = {}
    /\ error = <<"Title is required">>
    /\ ~loading

C1_WhitespaceTitleSubmitted ==
  /\ ev.act = "addMovie"
  /\ ev.form0.title = <<" ">>
  /\ ev.form0.salesMillions = <<"0">>
  /\ ev.done = "addMovie"

\* C2: when a bulk delete finishes with no error message set, the backend
\* holds no record and the displayed list is empty.
C2_BulkDeleteLeavesNothing ==
  (ev.done = "deleteAll" /\ error = <<>>) => (db = <<>> /\ movies = <<>>)

\* C3: when the first list request of a bulk delete fails (rejected, failure
\* status, or a body that does not parse), the bulk delete ends there and has
\* issued no DELETE request.
C3_FailedListIssuesNoDelete ==
  (ev.act = "DeleteAllListResponse" /\ ev.o \in {"reject", "status", "badbody"}) =>
    /\ ev.done = "deleteAll"
    /\ Deletes(ev.sent) = 0
    /\ Awaited = {}
    /\ error # <<>>

C3_ListFailedWithRecordsStored ==
  /\ ev.act = "DeleteAllListResponse"
  /\ ev.o = "status"
  /\ db # <<>>

\* C4: when one of the DELETE requests of a bulk delete is refused with a
\* failure status or rejected, the bulk delete ends with the error message set.
C4_RefusedDeleteFailsBulkDelete ==
  (ev.done = "deleteAll" /\ ev.refused) => error # <<>>

\* C5 as stated: a bulk delete that has fetched its list always issues the
\* final list reload, whether or not one of its DELETE requests rejects.
C5_ReloadRunsRegardless ==
  (ev.done = "deleteAll" /\ ev.fail # "list") =>
    (Gets(ev.sent) = 2 /\ ev.load # "none")

\* C5 as amended: the final reload of a bulk delete is issued only when every
\* DELETE request has resolved; when one rejects, the bulk delete ends there
\* with the error message set, issues no further GET and leaves the displayed
\* list as it was before the operation.
C5_ReloadOnlyWhenNoDeleteRejects ==
  /\ (ev.act = "DeleteAllDeleteResponse" /\ ev.o = "reject") =>
       /\ ev.done = "deleteAll"
       /\ Gets(ev.sent) = 1
       /\ Awaited = {}
       /\ error # <<>>
       /\ movies = ev.movies0
       /\ ~loading
  /\ (ev.act = "DeleteAllDeleteResponse" /\ ev.o # "reject"
        /\ ~\E r \in Awaited : r.method = "DELETE") =>
       /\ ev.done = "none"
       /\ Gets(ev.sent) = 2
       /\ \E r \in Awaited : r.method = "GET"

C5_DeleteRejectedOthersInFlight ==
  /\ ev.act = "DeleteAllDeleteResponse"
  /\ ev.o = "reject"
  /\ Deletes(ev.sent) = 2
  /\ \E r \in net : r.method = "DELETE"
  /\ movies # <<>>

\* C6: when a list load fails (failure status, rejected request, or a body
\* that is not the expected JSON), then at its completion the error message is
\* not empty and the displayed list is empty, for the movies list and for the
\* users list.
C6_FailedLoadShowsErrorAndNoRows ==
  /\ (ev.act = "LoadResponse" /\ ev.o \in {"status", "reject", "badbody"}) =>
       (error # <<>> /\ movies = <<>>)
  /\ (uev.act = "UsersLoadResponse" /\ uev.o \in {"status", "reject", "badbody", "html"}) =>
       (uError # <<>> /\ users = Loaded(<<>>))

C6_BothLoadsFailedAfterRowsShown ==
  /\ ev.act = "LoadResponse"
  /\ ev.o = "status"
  /\ ev.movies0 # <<>>
  /\ uev.act = "UsersLoadResponse"
  /\ uev.o = "html"

\* C7: when a confirmed deleteOne is answered with a failure status, it ends
\* with the error message set, issues no list reload, and leaves the displayed
\* list as it was before the operation; the displayed list changes only when
\* the GET of a load settles.
C7_RefusedDeleteOneKeepsList ==
  /\ []((ev.act = "DeleteOneResponse" /\ ev.o = "status") =>
          /\ ev.done = "deleteOne"
          /\ error # <<>>
          /\ Gets(ev.sent) = 0
          /\ Awaited = {}
          /\ movies = ev.movies0
          /\ ~loading)
  /\ [][movies' # movies =>
          \E r \in net : \E o \in AllOutcomes : LoadResponse(r, o)]_vars

C7_DeleteOfRecordAlreadyGone ==
  /\ ev.act = "DeleteOneResponse"
  /\ ev.o = "status"
  /\ \A i \in 1..Len(db) : db[i].id # ev.sent[1].id
  /\ \E i \in 1..Len(movies) : movies[i].id = ev.sent[1].id

\* C8 as stated: from the start of a submission to its completion the draft
\* is as submitted, or as reset by the submission itself.
C8_NoEditWhileSubmitting ==
  \A s \in Slots :
    ops[s].kind = "addMovie" =>
      (form = ops[s].form0 \/ (ops[s].pc = "load" /\ form = emptyForm))

\* C8 as amended: while a submission is in flight loading is true, which
\* disables the Add Movie, Clear, Delete All and Delete buttons; the inputs
\* stay enabled, so the draft changes only by a field edit or by the
\* submission's own reset.
C8_OnlyEditsAndResetWhileSubmitting ==
  /\ [](Submitting => loading)
  /\ [][(Submitting /\ form' # form) =>
          \/ \E name \in FieldNames : \E value \in FieldValues(name) :
               onChange(name, value)
          \/ \E r \in net : AddMovieResponse(r, "ok")]_vars

C8_EditedWhileSubmitting ==
  \E s \in Slots :
    /\ ops[s].kind = "addMovie"
    /\ ops[s].pc = "post"
    /\ ops[s].touched
    /\ form # ops[s].form0
    /\ loading

Posted(sent) == Gets(sent) > 0

\* C9 as stated: when a create completes, the draft is the empty template if
\* the POST succeeded, and is as submitted, with the error message set, if the
\* create failed.
C9_DraftAfterCreate ==
  ev.done = "addMovie" =>
    IF Posted(ev.sent)
    THEN form = emptyForm
    ELSE form = ev.form0 /\ error # <<>>

\* C9 as amended: when a create completes, the draft holds the empty template
\* if the POST succeeded and no field was edited during the reload, and the
\* submitted values, with the error message set, if the create failed and no
\* field was edited while the POST was in flight; the create itself changes
\* the draft only by that reset. Outside a create, the draft is emptied only by
\* Clear or by the user emptying a field.
C9_DraftAfterCreateUnlessEdited ==
  /\ [](ev.done = "addMovie" =>
          IF Posted(ev.sent)
          THEN ~ev.touched => form = emptyForm
          ELSE error # <<>> /\ (~ev.touched => form = ev.form0))
  /\ [][(form' = emptyForm /\ form # emptyForm) =>
          \/ Clear
          \/ \E r \in net : AddMovieResponse(r, "ok")
          \/ \E name \in FieldNames : onChange(name, <<>>)]_vars

C9_CreateSucceededDraftReset ==
  /\ ev.done = "addMovie"
  /\ Posted(ev.sent)
  /\ ~ev.touched
  /\ ev.form0.title = <<" ", "D">>
  /\ form = emptyForm

\* C10: after a create whose POST and list reload both succeeded, the
\* displayed list holds a record whose fields are the submitted values, with
\* null for every optional field left empty and the sales figure as a number.
Figure(s) == CASE s = <<"0">> -> 0 [] s = <<"0", "7">> -> 7 [] OTHER -> -1

Shows(m, f) ==
  /\ m.title = Str(f.title)
  /\ \A n \in FieldNames \ {"title", "salesMillions"} :
       m[n] = IF f[n] = <<>> THEN Null ELSE Str(f[n])
  /\ m.salesMillions =
       IF f.salesMillions = <<>> THEN Null ELSE Num(Figure(f.salesMillions))

C10_CreatedRecordIsListed ==
  (ev.done = "addMovie" /\ ev.load = "ok") =>
    \E i \in 1..Len(movies) : Shows(movies[i], ev.form0)

C10_CreatedWithZeroSales ==
  /\ ev.done = "addMovie"
  /\ ev.load = "ok"
  /\ ev.form0.title = <<" ", "D">>
  /\ ev.form0.salesMillions = <<"0">>
  /\ Len(movies) = 2

\* C11: for every draft, the payload create sends holds null for each optional
\* field that is the empty string and the submitted value for each that is
\* not, the sales figure as a number; an empty sales field is sent as null,
\* never as 0 or "".
Sends(body, f) ==
  /\ \A n \in FieldNames \ {"title", "salesMillions"} :
       body[n] = IF f[n] = <<>> THEN Null ELSE Str(f[n])
  /\ body.salesMillions =
       IF f.salesMillions = <<>> THEN Null ELSE Num(Figure(f.salesMillions))
  /\ f.salesMillions = <<>> =>
       (body.salesMillions # Num(0) /\ body.salesMillions # Str(<<>>))

C11_EmptyOptionalsSentAsNull ==
  \A r \in net : r.method = "POST" => Sends(r.body, ops[r.slot].form0)

C11_BlankDirectorNoSalesSent ==
  \E r \in net :
    /\ r.method = "POST"
    /\ ops[r.slot].form0.director = <<" ">>
    /\ ops[r.slot].form0.genre = <<>>
    /\ ops[r.slot].form0.posterUrl = <<"x">>
    /\ ops[r.slot].form0.salesMillions = <<>>
    /\ r.body.salesMillions = Null

ExactlyOne(a, b, c) == (a /\ ~b /\ ~c) \/ (~a /\ b /\ ~c) \/ (~a /\ ~b /\ c)

\* C12 as stated: once mounted, each list shows exactly one of its loading
\* indicator, its error message, and its collection or empty-list placeholder.
C12_ExactlyOnePresenterState ==
  /\ mounted => ExactlyOne(showsWorking, showsError, showsRows \/ showsPlaceholder)
  /\ uMounted => ExactlyOne(uShowsLoading, uShowsError, uShowsRows \/ uShowsPlaceholder)

\* C12 as amended: in each list the loading indicator and the error message
\* are never shown together; the movies table (rows, or the placeholder row
\* when empty) is shown in every state, also while loading or with an error;
\* the users list shows neither rows nor placeholder while it loads; and when
\* a list load has failed, the error message and the empty-list placeholder
\* are shown together.
C12_IndicatorExcludesError ==
  /\ ~(showsWorking /\ showsError)
  /\ showsRows \/ showsPlaceholder
  /\ uLoading => (uShowsLoading /\ ~uShowsError /\ ~uShowsRows /\ ~uShowsPlaceholder)
  /\ (ev.act = "LoadResponse" /\ loadFailed(ev.o)) =>
       (showsError /\ showsPlaceholder /\ ~showsWorking)
  /\ (uev.act = "UsersLoadResponse" /\ usersFailed(uev.o)) =>
       (uShowsError /\ uShowsPlaceholder /\ ~uShowsLoading)

C12_ErrorWithPlaceholderInBothLists ==
  /\ ev.act = "LoadResponse"
  /\ ev.o = "reject"
  /\ showsError /\ showsPlaceholder
  /\ uev.act = "UsersLoadResponse"
  /\ uev.o = "status"
  /\ uShowsError /\ uShowsPlaceholder

Operations == {"load", "addMovie", "deleteOne", "deleteAll"}
AllIdle == \A s \in Slots : ops[s].kind = "idle"

\* C13: when every request issued eventually settles, every operation (load,
\* addMovie, deleteOne, deleteAll) eventually completes; at its completion,
\* whether it succeeded or failed at any step, loading is false and no handler
\* is left suspended; loading is false whenever no operation is in progress,
\* so the buttons are enabled again.
C13_EveryOperationCompletes ==
  /\ [](ev.done \in Operations => (~loading /\ AllIdle))
  /\ [](AllIdle => ~loading)
  /\ \A k \in Operations :
       (\E s \in Slots : ops[s].kind = k) ~> (~loading /\ AllIdle)
  /\ loading ~> ~loading

C13_CreateEndedByFailedReload ==
  /\ ev.done = "addMovie"
  /\ ev.fail = "load"
  /\ ev.o = "badbody"
  /\ ~loading
  /\ AllIdle

\* C14: every operation that starts (load, addMovie, confirmed deleteOne,
\* confirmed deleteAll) clears the error message as it starts, before its
\* first request: the message is empty for as long as an operation is in
\* progress, and when an operation completes a message is shown exactly when
\* that operation, or its nested reload, failed.
C14_ErrorClearedAtStart ==
  /\ [](loading => error = <<>>)
  /\ [](ev.done \in Operations => (error # <<>> <=> ev.fail # "none"))
  /\ [][(~loading /\ loading') => error' = <<>>]_vars

C14_ErrorFromNestedReload ==
  /\ ev.done = "deleteOne"
  /\ ev.fail = "load"
  /\ ev.o = "status"
  /\ error = <<"GET /api/movies failed: ", "500">>

ListRequests == {r \in net : r.method = "GET"}

\* A trigger of the movies page that goes on to a list request.
ListTrigger ==
  \/ addMovie
  \/ \E id \in 1..MaxId : deleteOne(id, TRUE)
  \/ deleteAll(TRUE)

\* C15 as stated, in the form a state refutes: two list requests of one list
\* can overlap, that is, while a list request of the movies page or of the
\* users list is in flight, a trigger of that list that issues a list request
\* is available.
C15_ListTriggerWhileListInFlight ==
  /\ (mounted /\ ListRequests # {}) => ENABLED ListTrigger
  /\ (uMounted /\ uNet > 0) => ENABLED UsersRefresh

\* C15 as amended: two list requests of the same list never overlap. At most
\* one list request of the movies page and at most one of the users list is
\* in flight at any time; while one is in flight loading is true and no
\* trigger of that list is available, so the responses of a list are applied
\* in the order their requests were issued.
C15_OneListRequestAtATime ==
  /\ Cardinality(ListRequests) <= 1
  /\ uNet <= 1
  /\ ListRequests # {} => (loading /\ ~ENABLED ListTrigger)
  /\ uNet > 0 => (uLoading /\ ~ENABLED UsersRefresh)

C15_BothListsReloading ==
  /\ \E s \in Slots : ops[s].kind = "deleteAll" /\ ops[s].pc = "load"
  /\ Cardinality(ListRequests) = 1
  /\ \E r \in net : r.method = "DELETE"
  /\ users = NotLoaded
  /\ uNet = 1
  /\ uev.act = "load"

Ids(list) == {list[i].id : i \in 1..Len(list)}
DeleteIds(sent) == {sent[i].id : i \in {j \in 1..Len(sent) : sent[j].method = "DELETE"}}
DeletesOf(s) == {r \in net : r.method = "DELETE" /\ r.slot = s}

\* C16: a bulk delete goes list, deletes, reload. When its list response
\* arrives, it issues one DELETE request per record of that response (the
\* backend's list, not the displayed one); it has issued no DELETE before; and
\* while its final reload is in flight none of its DELETE requests is
\* outstanding, the reload being the last request it issued.
C16_ListThenDeletesThenReload ==
  /\ (ev.act = "DeleteAllListResponse" /\ ev.o = "ok") =>
       /\ DeleteIds(ev.sent) = Ids(db)
       /\ Deletes(ev.sent) = Len(db)
       /\ {r.id : r \in {q \in Awaited : q.method = "DELETE"}} = Ids(db)
       /\ Cardinality({q \in Awaited : q.method = "DELETE"}) = Len(db)
  /\ \A s \in Slots :
       (ops[s].kind = "deleteAll" /\ ops[s].pc = "list") =>
         (ops[s].sent = <<Sent("GET", 0)>> /\ DeletesOf(s) = {})
  /\ \A s \in Slots :
       (ops[s].kind = "deleteAll" /\ ops[s].pc = "load") =>
         /\ DeletesOf(s) = {}
         /\ ops[s].pending = {}
         /\ Gets(ops[s].sent) = 2
         /\ ops[s].sent[1].method = "GET"
         /\ ops[s].sent[Len(ops[s].sent)].method = "GET"

C16_DeletesFromResponseNotDisplay ==
  /\ ev.act = "DeleteAllListResponse"
  /\ ev.o = "ok"
  /\ ev.movies0 = <<>>
  /\ Deletes(ev.sent) = 1
  /\ \E r \in Awaited : r.method = "DELETE" /\ r.id = 1

InProgress == {s \in Slots : ops[s].kind # "idle"}

\* A button of the movies page that loading disables.
Button ==
  \/ addMovie
  \/ Clear
  \/ \E ok \in BOOLEAN : deleteAll(ok)
  \/ \E id \in 1..MaxId : \E ok \in BOOLEAN : deleteOne(id, ok)

\* C17 as stated: loading is true in every state in which a request issued by
\* an operation of the movies page is outstanding, and at most one operation
\* is in progress.
C17_LoadingWhileAnyRequestOutstanding ==
  /\ net # {} => loading
  /\ Cardinality(InProgress) <= 1

\* C17 as amended: loading is true in every state in which an operation is in
\* progress, that is, in which a request an operation still waits for is
\* outstanding, and false otherwise; no button (Add Movie, Clear, Delete All,
\* Delete) is available while loading is true, so at most one operation is in
\* progress at any time. The requests outstanding with loading false are the
\* DELETE requests of a bulk delete that ended when another of them rejected.
C17_LoadingWhileOperationInProgress ==
  /\ loading <=> InProgress # {}
  /\ loading <=> Awaited # {}
  /\ loading => ~ENABLED Button
  /\ Cardinality(InProgress) <= 1
  /\ \A r \in net : ~r.awaited => r.method = "DELETE"

C17_NewOperationBesideAbandonedDelete ==
  /\ \E s \in Slots : ops[s].kind = "addMovie" /\ ops[s].pc = "post"
  /\ \E r \in net : ~r.awaited /\ r.method = "DELETE"
  /\ loading

\* The user declines the confirm() of deleteOne or of deleteAll.
Decline ==
  \/ \E id \in 1..MaxId : deleteOne(id, FALSE)
  \/ deleteAll(FALSE)

\* C18: when the user declines the confirmation of deleteOne or deleteAll, no
\* request is issued and loading, the error message, the displayed list and
\* the form draft stay as they were, as do the backend and the requests in
\* flight.
C18_DeclinedConfirmChangesNothing ==
  /\ [][Decline => UNCHANGED <<net, loading, error, movies, form, ops, db, nextId>>]_vars
  /\ [](ev = Declined => (~loading /\ InProgress = {} /\ Awaited = {}))

C18_DeclinedWithErrorListAndDraft ==
  /\ ev = Declined
  /\ error # <<>>
  /\ movies # <<>>
  /\ form # emptyForm
  /\ net # {}

====
